---- MODULE Spec2Model ----
(***************************************************************************)
(* Chad Session Builder v2 (app/chad_session_builder.js).                  *)
(*                                                                         *)
(* The scheduler loop, one cycle (processTick) split at its awaits, the    *)
(* three tables it talks to (dev_transcripts_raw, dev_user_context,        *)
(* dev_session_logs) and the transaction the cycle runs in.                *)
(*                                                                         *)
(* Time is counted in minutes from an hour boundary (minute 0 = hh:00).    *)
(* Fields of a segment or row that no statement below reads (user_id,      *)
(* lane, content, updated_at) are left out of the records.                 *)
(***************************************************************************)
EXTENDS Integers, Sequences, FiniteSets, TLC

VARIABLES
  now,            \* wall clock, minutes
  nowSub,         \* wall clock, the part below the minute (seconds and
                  \* milliseconds), in units of 1/SubPerMin minute
  pc,             \* position of the process: "tick", "begin", "fetch",
                  \* "resolve", "write", "commit", "rollback", "release",
                  \* "wait", "exited"
  raw,            \* dev_transcripts_raw: set of raw event rows
  ctx,            \* dev_user_context: set of context rows
  db,             \* dev_session_logs as committed: sequence of rows
  txWrites,       \* rows upserted by the open transaction, not yet committed
  txOpen,         \* the cycle's connection has a transaction open
  checkedOut,     \* clients checked out of the pool
  tickTime,       \* processTick locals
  mode,
  windowStart,
  windowEnd,
  rawEvents,
  idx,            \* position of the for-loops (events, then segments)
  currentSegment, \* <<>> for null, <<seg>> otherwise
  segments,
  outcome,        \* how the cycle's try block ended: "none", "committed",
                  \* "rolledback", "thrown" (an exception is propagating)
  restarts,       \* process starts after the first one
  dbAtTick        \* history: dev_session_logs when the cycle started

vars == <<now, nowSub, pc, raw, ctx, db, txWrites, txOpen, checkedOut, tickTime, mode,
          windowStart, windowEnd, rawEvents, idx, currentSegment, segments,
          outcome, restarts, dbAtTick>>

locals == <<tickTime, mode, windowStart, windowEnd, rawEvents, idx,
            currentSegment, segments>>

----------------------------------------------------------------------------
(* Bounds of the model *)

MaxEvents == 5      \* raw events the environment may ingest
MaxTime == 50       \* the clock stops advancing here
SlowMin == 10       \* minutes a slow statement of a cycle takes
MaxRestarts == 1    \* process restarts
MaxCleaned == 1     \* aggregates a downstream collaborator moves on
StartTime == 37     \* the clock when the process is first started
StartSub == 1       \* and its part below the minute
SubPerMin == 4      \* resolution of the clock below the minute

(* Program constants *)

QuarterMin == 15    \* Math.floor(d.getMinutes() / 15) * 15
WindowMin == 30     \* tickTime.getTime() - 30 * 60 * 1000
HourMin == 60       \* Date.getMinutes() is the minute of the hour

NullInt == -1       \* SQL NULL / JS null in an integer column
NullStr == "NULL"   \* SQL NULL / JS null in a text column

Modes == {"internal", "external"}

----------------------------------------------------------------------------
(* Time Aligner *)

floorToQuarterHour(t) ==
  LET minutes == ((t % HourMin) \div QuarterMin) * QuarterMin
  IN  (t - (t % HourMin)) + minutes

quarterIndex(t) == (t % HourMin) \div QuarterMin

\* mutant: the mode changes every half hour
ModeOfHalfHour(qIdx) == IF qIdx < 2 THEN "internal" ELSE "external"

ModeOf(qIdx) == IF qIdx % 2 = 0 THEN "internal" ELSE "external"

\* Date.prototype.getTime of the instant (minute, part below the minute)
getTime(min, sub) == min * SubPerMin + sub

\* mutant: the floor keeps the seconds and milliseconds of the instant
msUntilKeepingSeconds(min, sub) ==
  getTime(floorToQuarterHour(min) + QuarterMin, sub) - getTime(min, sub)

\* floorToQuarterHour leaves seconds and milliseconds at 0 (setMinutes(m, 0, 0))
msUntilNextQuarter(min, sub) ==
  getTime(floorToQuarterHour(min) + QuarterMin, 0) - getTime(min, sub)

----------------------------------------------------------------------------
(* Device tags.  A tag is a sequence of one-character strings; <<>> is a   *)
(* null or empty tag.                                                      *)

LowerChars == {"a","b","c","d","e","f","g","h","i","j","k","l","m","n","o",
               "p","q","r","s","t","u","v","w","x","y","z"}
DigitChars == {"0","1","2","3","4","5","6","7","8","9"}

\* String.prototype.toLowerCase, on the letters the tags below use
toLowerCase(c) ==
  CASE c = "A" -> "a" [] c = "C" -> "c" [] c = "D" -> "d" [] c = "E" -> "e"
    [] c = "P" -> "p" [] c = "V" -> "v" [] OTHER -> c

DefaultTag ==
  <<"s","t","u","d","i","o","-","t","e","r","m","i","n","a","l","s">>

\* .replace(/[^a-z0-9-]/g, '-') on one character
replaceChar(c) == IF c \in LowerChars \cup DigitChars \cup {"-"} THEN c ELSE "-"

normalizePcTag(pcTag) ==
  IF pcTag = <<>> THEN DefaultTag
  ELSE [i \in 1..Len(pcTag) |-> replaceChar(toLowerCase(pcTag[i]))]

TagA == <<"P","C","_","1">>
TagB == <<"d","e","v","-","2">>

----------------------------------------------------------------------------
(* dev_transcripts_raw.  id is the table's serial key: the environment     *)
(* ingests the events of a fixed list in the order of their ids.  Events   *)
(* 3, 4 and 5 share a timestamp and alternate between the two devices;     *)
(* event 3 carries a project hint of its own; events after the fifth are   *)
(* of the other mode and have no device tag.                               *)

EvTs(i) == CASE i = 1 -> 5 [] i = 2 -> 10 [] i = 3 -> 20 [] i = 4 -> 20
             [] i = 5 -> 20 [] OTHER -> 25

EvSource(i) == IF i > 5 THEN "external" ELSE "internal"

EvTag(i) == CASE i = 3 -> TagB [] i = 5 -> TagB [] i > 5 -> <<>>
              [] OTHER -> TagA

EvVersion(i) == CASE i = 1 -> 2 [] i = 3 -> 1 [] i = 4 -> 3
                  [] OTHER -> NullInt

\* the event's own project_id / project_slug columns
EvHintId(i) == IF i = 3 THEN "P9" ELSE NullStr
EvHintSlug(i) == IF i = 3 THEN "p9" ELSE NullStr

RawEvent(i) ==
  [id |-> i, pc_tag |-> EvTag(i), source_type |-> EvSource(i),
   original_timestamp |-> EvTs(i), context_version |-> EvVersion(i),
   project_id |-> EvHintId(i), project_slug |-> EvHintSlug(i),
   processed |-> FALSE]

----------------------------------------------------------------------------
(* dev_user_context.  ended_at = NullInt is an open interval.              *)

CtxRow(tag, s, e, p, slug) ==
  [pc_tag_norm |-> tag, started_at |-> s, ended_at |-> e,
   project_id |-> p, project_slug |-> slug]

NormA == <<"p","c","-","1">>
NormB == <<"d","e","v","-","2">>

\* one project per device
CtxPerDevice == {CtxRow(NormA, 0, NullInt, "P1", "p1"),
                 CtxRow(NormB, 0, NullInt, "P2", "p2")}
\* the context of device A flips at minute 8 (rows overlap until 15);
\* device B has no context
CtxFlip == {CtxRow(NormA, 0, 15, "P1", "p1"),
            CtxRow(NormA, 8, NullInt, "P2", "p2")}
\* device A has a context without a project, device B none
CtxNoProject == {CtxRow(NormA, 0, NullInt, NullStr, NullStr)}

CtxChoices == {CtxPerDevice, CtxFlip, CtxNoProject}

\* the rows the WHERE clause of resolveContext keeps
ctxMatches(table, timestamp, pcTag) ==
  {r \in table : /\ r.pc_tag_norm = pcTag
                 /\ r.started_at <= timestamp
                 /\ (r.ended_at = NullInt \/ r.ended_at > timestamp)}

\* ORDER BY started_at DESC LIMIT 1; result.rows[0] || null  (<<>> is null)
resolveContext(table, timestamp, pcTag) ==
  LET m == ctxMatches(table, timestamp, pcTag)
  IN  IF m = {} THEN <<>>
      ELSE <<CHOOSE r \in m : \A q \in m : q.started_at <= r.started_at>>

\* mutant: the project of the context row, without the fallback
projectIdNoFallback(c) ==
  IF c = <<>> THEN NullStr ELSE c[1].project_id

\* ctx?.project_id || 'UNASSIGNED'
projectIdOf(c) ==
  IF c = <<>> \/ c[1].project_id = NullStr THEN "UNASSIGNED"
  ELSE c[1].project_id

\* ctx?.project_slug || 'unassigned'
projectSlugOf(c) ==
  IF c = <<>> \/ c[1].project_slug = NullStr THEN "unassigned"
  ELSE c[1].project_slug

----------------------------------------------------------------------------
(* Fetch: the SELECT on dev_transcripts_raw *)

\* mutant: the window is closed at its end
fetchRowsInclusive(table, ws, we, m) ==
  {e \in table : /\ e.original_timestamp >= ws
                 /\ e.original_timestamp <= we
                 /\ e.source_type = m}

\* WHERE original_timestamp >= $1 AND original_timestamp < $2
\*   AND source_type = $3
fetchRows(table, ws, we, m) ==
  {e \in table : /\ e.original_timestamp >= ws
                 /\ e.original_timestamp < we
                 /\ e.source_type = m}

\* ORDER BY original_timestamp ASC: every order of the rows that is
\* ascending in the timestamp (rows of equal timestamp come in any order)
orderedRows(S) ==
  {s \in [1..Cardinality(S) -> S] :
     /\ \A i, j \in 1..Cardinality(S) : i # j => s[i] # s[j]
     /\ \A i, j \in 1..Cardinality(S) :
          i < j => s[i].original_timestamp <= s[j].original_timestamp}

\* mutant: the fetch marks the rows it read as processed
rawMarkedProcessed(table, rows) ==
  {IF \E i \in 1..Len(rows) : rows[i].id = e.id
   THEN [e EXCEPT !.processed = TRUE] ELSE e : e \in table}

\* what the SELECT leaves in dev_transcripts_raw
rawAfterFetch(table, rows) == table

----------------------------------------------------------------------------
(* Segmenter: the body of the for-loop over rawEvents *)

\* mutant: a segment is started for the first event only
needNewOnlyFirst(cur, projectId) == cur = <<>>

needNewSegment(cur, projectId) ==
  cur = <<>> \/ cur[1].projectId # projectId

\* mutant: the flushed segment ends at its own last event
closeAtOwnLastEvent(seg, event) ==
  [seg EXCEPT !.segmentEnd = seg.events[Len(seg.events)].original_timestamp]

\* currentSegment.segmentEnd = event.original_timestamp
closeSegment(seg, event) ==
  [seg EXCEPT !.segmentEnd = event.original_timestamp]

newSegment(c, event, m) ==
  [projectId |-> projectIdOf(c), projectSlug |-> projectSlugOf(c),
   pcTag |-> event.pc_tag, mode |-> m,
   segmentStart |-> event.original_timestamp, segmentEnd |-> NullInt,
   events |-> <<>>, contextVersions |-> <<>>]

pushEvent(seg, event) ==
  [seg EXCEPT !.events = Append(@, event),
              !.contextVersions =
                 IF event.context_version # NullInt
                 THEN Append(@, event.context_version) ELSE @]

\* segments after the event: the previous segment is flushed on a change
segmentsAfter(cur, segs, c, event) ==
  IF needNewSegment(cur, projectIdOf(c)) /\ cur # <<>>
  THEN Append(segs, closeSegment(cur[1], event))
  ELSE segs

\* currentSegment after the event
currentAfter(cur, c, event, m) ==
  IF needNewSegment(cur, projectIdOf(c))
  THEN <<pushEvent(newSegment(c, event, m), event)>>
  ELSE <<pushEvent(cur[1], event)>>

\* "Flush last segment"
flushLast(cur, segs) ==
  IF cur # <<>> /\ Len(cur[1].events) > 0
  THEN Append(segs,
         [cur[1] EXCEPT !.segmentEnd =
            cur[1].events[Len(cur[1].events)].original_timestamp])
  ELSE segs

----------------------------------------------------------------------------
(* Aggregate writer: the INSERT ... ON CONFLICT of one segment *)

\* Date.prototype.toISOString: the hour and the minute fields of the instant
toISOString(t) == <<t \div HourMin, t % HourMin>>

\* `chad:${mode}:${seg.projectId}:${start.toISOString()}:${end.toISOString()}`
idempotencyKey(m, seg) ==
  <<"chad", m, seg.projectId, toISOString(seg.segmentStart),
    toISOString(seg.segmentEnd)>>

SeqRange(s) == {s[i] : i \in 1..Len(s)}

\* Math.min(...xs), Math.max(...xs), null for an empty list
minOrNull(xs) ==
  IF xs = <<>> THEN NullInt
  ELSE CHOOSE x \in SeqRange(xs) : \A y \in SeqRange(xs) : x <= y
maxOrNull(xs) ==
  IF xs = <<>> THEN NullInt
  ELSE CHOOSE x \in SeqRange(xs) : \A y \in SeqRange(xs) : x >= y

\* the VALUES tuple of the INSERT
insertValues(seg, m, ws, we) ==
  [idempotency_key |-> idempotencyKey(m, seg),
   pc_tag |-> seg.pcTag,
   pc_tag_norm |-> normalizePcTag(seg.pcTag),
   project_id |-> seg.projectId,
   project_slug |-> seg.projectSlug,
   mode |-> m,
   window_start |-> ws,
   window_end |-> we,
   segment_start |-> seg.segmentStart,
   segment_end |-> seg.segmentEnd,
   first_ts |-> seg.segmentStart,
   last_ts |-> seg.segmentEnd,
   raw_refs |-> [i \in 1..Len(seg.events) |-> seg.events[i].id],
   raw_count |-> Len(seg.events),
   message_count |-> Len(seg.events),
   context_version_min |-> minOrNull(seg.contextVersions),
   context_version_max |-> maxOrNull(seg.contextVersions),
   status |-> "active"]

\* mutant: the EXCLUDED value overwrites the stored one
GreatestIncoming(a, b) == b

\* SQL GREATEST: NULL arguments are ignored
Greatest(a, b) ==
  IF a = NullInt THEN b ELSE IF b = NullInt THEN a
  ELSE IF a >= b THEN a ELSE b

\* mutant: the update also takes the status of the EXCLUDED row
doUpdateWithStatus(old, excluded) ==
  [old EXCEPT
     !.last_ts = Greatest(old.last_ts, excluded.last_ts),
     !.segment_end = Greatest(old.segment_end, excluded.segment_end),
     !.raw_refs = old.raw_refs \o excluded.raw_refs,
     !.raw_count = old.raw_count + excluded.raw_count,
     !.message_count = old.message_count + excluded.message_count,
     !.context_version_max =
        Greatest(old.context_version_max, excluded.context_version_max),
     !.status = excluded.status]

\* DO UPDATE SET ... of the stored row from the EXCLUDED one
doUpdate(old, excluded) ==
  [old EXCEPT
     !.last_ts = Greatest(old.last_ts, excluded.last_ts),
     !.segment_end = Greatest(old.segment_end, excluded.segment_end),
     !.raw_refs = old.raw_refs \o excluded.raw_refs,
     !.raw_count = old.raw_count + excluded.raw_count,
     !.message_count = old.message_count + excluded.message_count,
     !.context_version_max =
        Greatest(old.context_version_max, excluded.context_version_max)]

\* ON CONFLICT (idempotency_key): the positions of the conflicting rows
conflicts(table, row) ==
  {i \in 1..Len(table) : table[i].idempotency_key = row.idempotency_key}

\* mutant: a plain INSERT, no conflict target
insertAlways(table, row) == Append(table, row)

\* INSERT ... ON CONFLICT (idempotency_key) DO UPDATE
upsert(table, row) ==
  IF conflicts(table, row) = {} THEN Append(table, row)
  ELSE [i \in 1..Len(table) |->
          IF i \in conflicts(table, row) THEN doUpdate(table[i], row)
          ELSE table[i]]

\* the statements of a transaction, applied in order
RECURSIVE applyWrites(_, _)
applyWrites(table, writes) ==
  IF writes = <<>> THEN table
  ELSE applyWrites(upsert(table, Head(writes)), Tail(writes))

\* COMMIT makes the transaction's statements durable; ROLLBACK drops them
committed(table, writes) == applyWrites(table, writes)
\* mutant: the statements were not in a transaction, ROLLBACK undoes nothing
rolledBackNothing(table, writes) == applyWrites(table, writes)
rolledBack(table, writes) == table

----------------------------------------------------------------------------
(* The process *)

Init ==
  /\ now = StartTime
  /\ nowSub = StartSub
  /\ pc = "tick"
  /\ raw = {}
  /\ ctx \in CtxChoices
  /\ db = <<>>
  /\ txWrites = <<>>
  /\ txOpen = FALSE
  /\ checkedOut = 0
  /\ tickTime = 0
  /\ mode = "internal"
  /\ windowStart = 0
  /\ windowEnd = 0
  /\ rawEvents = <<>>
  /\ idx = 0
  /\ currentSegment = <<>>
  /\ segments = <<>>
  /\ outcome = "none"
  /\ restarts = 0
  /\ dbAtTick = <<>>

\* processTick up to `await pool.connect()`; a rejected connect is outside
\* the try block, leaves processTick and loop(), and ends in process.exit(1)
Connect(ok) ==
  /\ pc = "tick"
  /\ tickTime' = floorToQuarterHour(now)
  /\ mode' = ModeOf(quarterIndex(tickTime'))
  /\ windowEnd' = tickTime'
  /\ windowStart' = tickTime' - WindowMin
  /\ dbAtTick' = db
  /\ outcome' = "none"
  /\ IF ok
     THEN pc' = "begin" /\ checkedOut' = checkedOut + 1
     ELSE pc' = "exited" /\ checkedOut' = checkedOut
  /\ UNCHANGED <<now, nowSub, raw, ctx, db, txWrites, txOpen, rawEvents, idx,
                 currentSegment, segments, restarts>>

\* await client.query('BEGIN')
Begin(ok) ==
  /\ pc = "begin"
  /\ IF ok THEN pc' = "fetch" /\ txOpen' = TRUE
           ELSE pc' = "rollback" /\ txOpen' = txOpen
  /\ UNCHANGED <<now, nowSub, raw, ctx, db, txWrites, checkedOut, locals, outcome,
                 restarts, dbAtTick>>

\* mutant: the empty window goes through the segmenter like any other
afterFetchNoEmptyTest(rows) == "resolve"

\* if (rawEvents.length === 0) { COMMIT; return }, else the for-loop
afterFetch(rows) == IF Len(rows) = 0 THEN "commit" ELSE "resolve"

\* the SELECT on dev_transcripts_raw and the empty-window test
Fetch(ok) ==
  /\ pc = "fetch"
  /\ IF ok
     THEN \E rows \in orderedRows(fetchRows(raw, windowStart, windowEnd, mode)) :
            /\ rawEvents' = rows
            /\ raw' = rawAfterFetch(raw, rows)
            /\ idx' = 1
            /\ pc' = afterFetch(rows)
     ELSE /\ pc' = "rollback"
          /\ UNCHANGED <<rawEvents, raw, idx>>
  /\ UNCHANGED <<now, nowSub, ctx, db, txWrites, txOpen, checkedOut, tickTime, mode,
                 windowStart, windowEnd, currentSegment, segments, outcome,
                 restarts, dbAtTick>>

\* one turn of the for-loop over rawEvents; after the last event the last
\* segment is flushed
Resolve(ok) ==
  /\ pc = "resolve"
  /\ IF ok
     THEN LET event == rawEvents[idx]
              c == resolveContext(ctx, event.original_timestamp,
                                  normalizePcTag(event.pc_tag))
              segs == segmentsAfter(currentSegment, segments, c, event)
              cur == currentAfter(currentSegment, c, event, mode)
          IN  IF idx < Len(rawEvents)
              THEN /\ segments' = segs
                   /\ currentSegment' = cur
                   /\ idx' = idx + 1
                   /\ pc' = "resolve"
              ELSE /\ segments' = flushLast(cur, segs)
                   /\ currentSegment' = cur
                   /\ idx' = 1
                   /\ pc' = "write"
     ELSE /\ pc' = "rollback"
          /\ UNCHANGED <<segments, currentSegment, idx>>
  /\ UNCHANGED <<now, nowSub, raw, ctx, db, txWrites, txOpen, checkedOut, tickTime,
                 mode, windowStart, windowEnd, rawEvents, outcome, restarts,
                 dbAtTick>>

\* one turn of the for-loop over segments: the upsert of segments[idx]
Upsert(ok) ==
  /\ pc = "write"
  /\ IF ok
     THEN /\ txWrites' = Append(txWrites,
               insertValues(segments[idx], mode, windowStart, windowEnd))
          /\ IF idx < Len(segments)
             THEN idx' = idx + 1 /\ pc' = "write"
             ELSE idx' = idx /\ pc' = "commit"
     ELSE /\ pc' = "rollback"
          /\ UNCHANGED <<txWrites, idx>>
  /\ UNCHANGED <<now, nowSub, raw, ctx, db, txOpen, checkedOut, tickTime, mode,
                 windowStart, windowEnd, rawEvents, currentSegment, segments,
                 outcome, restarts, dbAtTick>>

\* await client.query('COMMIT'), of the empty window or after the writes
Commit(ok) ==
  /\ pc = "commit"
  /\ IF ok
     THEN /\ db' = committed(db, txWrites)
          /\ txWrites' = <<>>
          /\ txOpen' = FALSE
          /\ outcome' = "committed"
          /\ pc' = "release"
     ELSE /\ pc' = "rollback"
          /\ UNCHANGED <<db, txWrites, txOpen, outcome>>
  /\ UNCHANGED <<now, nowSub, raw, ctx, checkedOut, locals, restarts, dbAtTick>>

\* catch (err): await client.query('ROLLBACK'); a rejected ROLLBACK leaves
\* the catch block as an exception
Rollback(ok) ==
  /\ pc = "rollback"
  /\ IF ok
     THEN /\ db' = rolledBack(db, txWrites)
          /\ txWrites' = <<>>
          /\ txOpen' = FALSE
          /\ outcome' = "rolledback"
     ELSE /\ outcome' = "thrown"
          /\ UNCHANGED <<db, txWrites, txOpen>>
  /\ pc' = "release"
  /\ UNCHANGED <<now, nowSub, raw, ctx, checkedOut, locals, restarts, dbAtTick>>

\* finally: client.release(); then processTick returns to loop(), or the
\* exception reaches loop().catch and process.exit(1) closes the connection
Release ==
  /\ pc = "release"
  /\ checkedOut' = checkedOut - 1
  /\ IF outcome = "thrown"
     THEN /\ pc' = "exited"
          /\ db' = rolledBack(db, txWrites)
          /\ txWrites' = <<>>
          /\ txOpen' = FALSE
     ELSE /\ pc' = "wait"
          /\ UNCHANGED <<db, txWrites, txOpen>>
  /\ rawEvents' = <<>>
  /\ idx' = 0
  /\ currentSegment' = <<>>
  /\ segments' = <<>>
  /\ outcome' = "none"
  /\ dbAtTick' = <<>>
  /\ UNCHANGED <<now, nowSub, raw, ctx, tickTime, mode, windowStart, windowEnd,
                 restarts>>

\* a statement of the cycle takes long: the clock runs on, at most past one
\* quarter-hour boundary
Slow ==
  /\ pc = "fetch"
  /\ now < tickTime + QuarterMin
  /\ now + SlowMin <= MaxTime
  /\ now' = now + SlowMin
  /\ UNCHANGED <<nowSub, pc, raw, ctx, db, txWrites, txOpen, checkedOut,
                 locals, outcome, restarts, dbAtTick>>

\* mutant: processTick is not awaited, the loop goes on while it runs
cycleNotAwaited(p) == p \notin {"tick", "exited"}

\* `await processTick()` has returned to loop()
cycleCompleted(p) == p = "wait"

\* loop(): waitMs = msUntilNextQuarter(); the timer fires; next processTick
Wait ==
  /\ cycleCompleted(pc)
  /\ LET fired == getTime(now, nowSub) + msUntilNextQuarter(now, nowSub)
     IN  /\ fired <= getTime(MaxTime, 0)
         /\ now' = fired \div SubPerMin
         /\ nowSub' = fired % SubPerMin
  /\ pc' = "tick"
  /\ UNCHANGED <<raw, ctx, db, txWrites, txOpen, checkedOut, locals, outcome,
                 restarts, dbAtTick>>

\* the process is stopped while it waits, or has exited, and is started
\* again: loop() runs processTick immediately
Restart ==
  /\ pc \in {"wait", "exited"}
  /\ restarts < MaxRestarts
  /\ restarts' = restarts + 1
  /\ pc' = "tick"
  /\ checkedOut' = 0
  /\ UNCHANGED <<now, nowSub, raw, ctx, db, txWrites, txOpen, locals, outcome,
                 dbAtTick>>

(* The environment.  A cycle reads dev_transcripts_raw once, in Fetch, and *)
(* dev_session_logs once, in Commit, so a collaborator's write during a    *)
(* cycle has the effect of the same write just before or just after it:    *)
(* the collaborators' steps are taken between cycles.                      *)

Idle == pc \in {"tick", "wait", "exited"}

\* a collaborator appends a raw event
Ingest(i) ==
  /\ Idle
  /\ i = Cardinality(raw) + 1
  /\ raw' = raw \cup {RawEvent(i)}
  /\ UNCHANGED <<now, nowSub, pc, ctx, db, txWrites, txOpen, checkedOut, locals,
                 outcome, restarts, dbAtTick>>

\* a downstream collaborator moves an aggregate beyond 'active'
Downstream(k) ==
  /\ Idle
  /\ db[k].status = "active"
  /\ Cardinality({j \in 1..Len(db) : db[j].status # "active"}) < MaxCleaned
  /\ db' = [db EXCEPT ![k].status = "cleaned"]
  /\ UNCHANGED <<now, nowSub, pc, raw, ctx, txWrites, txOpen, checkedOut, locals,
                 outcome, restarts, dbAtTick>>

Next ==
  \/ \E ok \in BOOLEAN : Connect(ok)
  \/ \E ok \in BOOLEAN : Begin(ok)
  \/ \E ok \in BOOLEAN : Fetch(ok)
  \/ \E ok \in BOOLEAN : Resolve(ok)
  \/ \E ok \in BOOLEAN : Upsert(ok)
  \/ \E ok \in BOOLEAN : Commit(ok)
  \/ \E ok \in BOOLEAN : Rollback(ok)
  \/ Release
  \/ Slow
  \/ Wait
  \/ Restart
  \/ \E i \in 1..MaxEvents : Ingest(i)
  \/ \E k \in 1..Len(db) : Downstream(k)

Spec == Init /\ [][Next]_vars

----------------------------------------------------------------------------
(* Helpers of the properties *)

\* the mode of the cycle that starts at instant t
modeAt(t) == ModeOf(quarterIndex(floorToQuarterHour(t)))

\* t is a quarter-hour boundary
OnBoundary(min, sub) == (min % HourMin) % QuarterMin = 0 /\ sub = 0

InCycle == pc \in {"begin", "fetch", "resolve", "write", "commit", "rollback"}

Keys(table) == {table[i].idempotency_key : i \in 1..Len(table)}

UniqueKeys(table) ==
  \A i, j \in 1..Len(table) :
    i # j => table[i].idempotency_key # table[j].idempotency_key

NoDuplicates(s) == \A i, j \in 1..Len(s) : i # j => s[i] # s[j]

\* the aggregate columns of a row
Aggregate(r) ==
  [raw_refs |-> r.raw_refs, raw_count |-> r.raw_count,
   message_count |-> r.message_count, last_ts |-> r.last_ts,
   segment_end |-> r.segment_end,
   context_version_min |-> r.context_version_min,
   context_version_max |-> r.context_version_max, status |-> r.status]

Aggregates(table) == [i \in 1..Len(table) |-> Aggregate(table[i])]

\* the VALUES tuples of the cycle's segments, in order
SegmentRows ==
  [i \in 1..Len(segments) |->
     insertValues(segments[i], mode, windowStart, windowEnd)]

----------------------------------------------------------------------------
(* C1: writer idempotence.  For the segment list S of a cycle and the      *)
(* stored table, applying the upserts of S twice leaves every aggregate    *)
(* column of every row as applying them once does.  The code concatenates  *)
(* raw_refs and adds the counts on every conflict, so this is violated.    *)
C1_WriterIdempotent ==
  pc = "commit" =>
    Aggregates(applyWrites(applyWrites(db, txWrites), txWrites))
      = Aggregates(applyWrites(db, txWrites))

(* C2: after any sequence of cycles, every row's raw_count is the number   *)
(* of distinct event ids applied to it and raw_refs holds each id once.    *)
(* A re-run of the same window (start-up tick after a restart within the   *)
(* quarter-hour) violates it.                                              *)
C2_CountsDistinctRefs ==
  \A k \in 1..Len(db) :
    /\ NoDuplicates(db[k].raw_refs)
    /\ db[k].raw_count = Cardinality(SeqRange(db[k].raw_refs))

(* C3: dev_session_logs holds at most one row per idempotency key, and     *)
(* applying a cycle's segment list a second time yields the same keys and  *)
(* the same number of rows as applying it once.                            *)
C3_OneRowPerKey ==
  /\ UniqueKeys(db)
  /\ pc = "commit" =>
       LET once == applyWrites(db, txWrites)
           twice == applyWrites(once, txWrites)
       IN  /\ UniqueKeys(once)
           /\ Keys(twice) = Keys(once)
           /\ Len(twice) = Len(once)

\* two rows are stored and one of them has been hit by a re-run of its cycle
C3_Witness ==
  /\ Len(db) >= 2
  /\ \E k \in 1..Len(db) : ~NoDuplicates(db[k].raw_refs)

(* C4: every failure of a cycle is absorbed at the cycle boundary: the     *)
(* process never exits.  A rejected pool.connect() or ROLLBACK leaves      *)
(* processTick as an exception and ends in process.exit(1).                *)
C4_FailureAbsorbed == pc # "exited"

(* C5: cycle atomicity.  Until COMMIT succeeds dev_session_logs is what it *)
(* was when the cycle started; a committed cycle shows all its upserts at  *)
(* once; a cycle that failed, on whatever statement, leaves the table as   *)
(* it was, also when ROLLBACK itself is rejected and the process exits.    *)
C5_CycleAtomic ==
  /\ [](/\ InCycle => db = dbAtTick
        /\ (pc = "release" /\ outcome = "committed")
             => db = applyWrites(dbAtTick, SegmentRows)
        /\ (pc = "release" /\ outcome # "committed") => db = dbAtTick)
  /\ [][(pc = "release" /\ outcome = "thrown") => db' = db]_vars

\* the upsert of the second of three segments failed after the first one
\* succeeded, on a table that already held rows, and the cycle rolled back
C5_Witness ==
  /\ pc = "release"
  /\ outcome = "rolledback"
  /\ Len(segments) >= 3
  /\ idx = 2
  /\ Len(db) >= 1

(* C6: a failed cycle is retried.  When the cycle of window W and mode m   *)
(* has rolled back, every raw event of that cycle lies in the window of a  *)
(* later quarter-hour tick of mode m.  The windows of one mode are         *)
(* [T-30, T) for T 30 minutes apart, so no later tick reads W again.       *)
C6_FailedCycleRetried ==
  (pc = "release" /\ outcome = "rolledback") =>
    \A e \in fetchRows(raw, windowStart, windowEnd, mode) :
      \E k \in 1..8 :
        LET T == tickTime + k * QuarterMin
        IN  /\ ModeOf(quarterIndex(T)) = mode
            /\ T - WindowMin <= e.original_timestamp
            /\ e.original_timestamp < T

\* old and new table of a step of the cycle: a new key is stored 'active',
\* a key already stored keeps its status
StatusKept(old, new) ==
  \A j \in 1..Len(new) :
    IF \E i \in 1..Len(old) : old[i].idempotency_key = new[j].idempotency_key
    THEN \A i \in 1..Len(old) :
           old[i].idempotency_key = new[j].idempotency_key
             => new[j].status = old[i].status
    ELSE new[j].status = "active"

(* C7: the core writes no status but 'active': every VALUES tuple of a     *)
(* cycle has status 'active', a row a cycle inserts is 'active', and a row *)
(* a cycle's upsert hits keeps the status it had.                          *)
C7_StatusOnlyActive ==
  /\ [](\A k \in 1..Len(txWrites) : txWrites[k].status = "active")
  /\ [][(~Idle /\ db' # db) => StatusKept(db, db')]_vars

\* a cycle has committed an upsert onto a row a collaborator had 'cleaned'
C7_Witness ==
  /\ pc = "release"
  /\ outcome = "committed"
  /\ \E i \in 1..Len(dbAtTick) :
       /\ dbAtTick[i].status = "cleaned"
       /\ \E k \in 1..Len(SegmentRows) :
            SegmentRows[k].idempotency_key = dbAtTick[i].idempotency_key
       /\ db[i].raw_count > dbAtTick[i].raw_count
       /\ db[i].status = "cleaned"

(* C8: every step of the process, in a cycle that succeeds or fails,       *)
(* leaves dev_transcripts_raw and dev_user_context as they are.            *)
C8_SourcesUntouched ==
  [][(~Idle \/ pc' # pc) => (raw' = raw /\ ctx' = ctx)]_vars

\* a cycle has fetched events and committed rows of them
C8_Witness ==
  /\ pc = "release"
  /\ outcome = "committed"
  /\ Len(rawEvents) >= 2
  /\ Len(db) > Len(dbAtTick)
  /\ \A e \in raw : ~e.processed

\* the project an event resolves to
ProjectOfEvent(e) ==
  projectIdOf(resolveContext(ctx, e.original_timestamp,
                             normalizePcTag(e.pc_tag)))

RECURSIVE FlattenEvents(_)
FlattenEvents(segs) ==
  IF segs = <<>> THEN <<>>
  ELSE Head(segs).events \o FlattenEvents(Tail(segs))

SegmentsBuilt == pc \in {"write", "commit"} /\ rawEvents # <<>>

(* C9: the segments built from a non-empty ascending event sequence        *)
(* partition it: their event lists concatenated give the sequence, none    *)
(* is empty, every event resolves to its segment's projectId, and adjacent *)
(* segments differ in projectId.                                           *)
C9_SegmentsPartition ==
  SegmentsBuilt =>
    /\ FlattenEvents(segments) = rawEvents
    /\ \A i \in 1..Len(segments) :
         /\ Len(segments[i].events) > 0
         /\ \A k \in 1..Len(segments[i].events) :
              ProjectOfEvent(segments[i].events[k]) = segments[i].projectId
    /\ \A i \in 1..(Len(segments) - 1) :
         segments[i].projectId # segments[i + 1].projectId

\* four events, two of one timestamp, split into three segments
C9_Witness ==
  /\ pc = "write"
  /\ Len(rawEvents) >= 4
  /\ Len(segments) >= 3
  /\ \E i \in 1..(Len(rawEvents) - 1) :
       rawEvents[i].original_timestamp = rawEvents[i + 1].original_timestamp

(* C10: segmentStart is the timestamp of the segment's first event; the    *)
(* segmentEnd of a segment that is not the last is the segmentStart of the *)
(* next one; the segmentEnd of the last is the timestamp of its last       *)
(* event.  A single event gives one segment with segmentStart =            *)
(* segmentEnd.                                                             *)
C10_SegmentBoundaries ==
  SegmentsBuilt =>
    /\ \A i \in 1..Len(segments) :
         /\ segments[i].segmentStart
              = segments[i].events[1].original_timestamp
         /\ i < Len(segments) =>
              segments[i].segmentEnd = segments[i + 1].segmentStart
         /\ i = Len(segments) =>
              segments[i].segmentEnd =
                segments[i].events[Len(segments[i].events)].original_timestamp
    /\ Len(rawEvents) = 1 =>
         /\ Len(segments) = 1
         /\ segments[1].segmentStart = segments[1].segmentEnd

\* events at 10:05 (P1), 10:10 (P1), 10:20 (P2) of the window [10:00, 10:30)
\* give [10:05, 10:20) P1 with 2 events and [10:20, 10:20) P2 with 1 event
C10_Witness ==
  /\ pc = "write"
  /\ windowStart = 0 /\ windowEnd = 30
  /\ [i \in 1..Len(rawEvents) |-> rawEvents[i].original_timestamp]
       = <<5, 10, 20>>
  /\ [i \in 1..Len(rawEvents) |-> ProjectOfEvent(rawEvents[i])]
       = <<"P1", "P1", "P2">>
  /\ Len(segments) = 2
  /\ segments[1].projectId = "P1"
  /\ segments[1].segmentStart = 5 /\ segments[1].segmentEnd = 20
  /\ Len(segments[1].events) = 2
  /\ segments[2].projectId = "P2"
  /\ segments[2].segmentStart = 20 /\ segments[2].segmentEnd = 20
  /\ Len(segments[2].events) = 1

(* C12: at most one cycle is in flight.  A cycle holds one pool client     *)
(* from connect to release; never are two checked out, and a cycle, the    *)
(* start-up one included, begins only when the one before has released     *)
(* its client with no transaction open.  A cycle that runs past a          *)
(* quarter-hour boundary makes the loop wait for the boundary after it.    *)
C12_OneCycleInFlight ==
  /\ [](/\ checkedOut <= 1
        /\ (InCycle \/ pc = "release") => checkedOut = 1)
  /\ [][(pc' = "tick" /\ pc # "tick") =>
          /\ pc \in {"wait", "exited"}
          /\ checkedOut' = 0
          /\ ~txOpen /\ txWrites = <<>>]_vars
  /\ [][(pc = "wait" /\ pc' = "tick" /\ restarts' = restarts) =>
          /\ OnBoundary(now', nowSub')
          /\ getTime(now', nowSub') > getTime(now, nowSub)]_vars

\* a cycle ran past the boundary after its tick and completed: the loop
\* now waits for the second boundary after the tick, the first is skipped
C12_Witness ==
  /\ pc = "wait"
  /\ checkedOut = 0
  /\ floorToQuarterHour(now) = tickTime + QuarterMin
  /\ getTime(now, nowSub) + msUntilNextQuarter(now, nowSub)
       = getTime(tickTime + 2 * QuarterMin, 0)

\* the non-null ones of two version markers
NonNull(a, b) == {a, b} \ {NullInt}
MinNonNull(a, b) ==
  IF NonNull(a, b) = {} THEN NullInt
  ELSE CHOOSE x \in NonNull(a, b) : \A y \in NonNull(a, b) : x <= y
MaxNonNull(a, b) ==
  IF NonNull(a, b) = {} THEN NullInt
  ELSE CHOOSE x \in NonNull(a, b) : \A y \in NonNull(a, b) : x >= y

(* C13: an upsert that hits a stored key leaves context_version_min the    *)
(* minimum and context_version_max the maximum of the non-null version     *)
(* markers of the stored row and the incoming segment.  DO UPDATE SET has  *)
(* no context_version_min, so the stored minimum stays as it was.          *)
C13_VersionsMerged ==
  pc = "commit" =>
    \A k \in 1..Len(txWrites) : \A i \in 1..Len(db) :
      db[i].idempotency_key = txWrites[k].idempotency_key =>
        LET merged == doUpdate(db[i], txWrites[k])
        IN  /\ merged.context_version_min =
                 MinNonNull(db[i].context_version_min,
                            txWrites[k].context_version_min)
            /\ merged.context_version_max =
                 MaxNonNull(db[i].context_version_max,
                            txWrites[k].context_version_max)

SetMax(S) == CHOOSE x \in S : \A y \in S : x >= y

\* the pending writes of the transaction that hit stored row i
Hits(i) ==
  {k \in 1..Len(txWrites) :
     txWrites[k].idempotency_key = db[i].idempotency_key}

(* C14: no step takes a row away from dev_session_logs or lowers last_ts,  *)
(* segment_end, raw_count, message_count or context_version_max (NULL is   *)
(* below every marker) of a stored row, and the commit of upserts that hit *)
(* a stored key leaves last_ts and segment_end at the maximum of the       *)
(* stored and the incoming values.                                         *)
C14_MonotonicMerge ==
  [][/\ Len(db') >= Len(db)
     /\ \A i \in 1..Len(db) :
          /\ db'[i].idempotency_key = db[i].idempotency_key
          /\ db'[i].last_ts >= db[i].last_ts
          /\ db'[i].segment_end >= db[i].segment_end
          /\ db'[i].raw_count >= db[i].raw_count
          /\ db'[i].message_count >= db[i].message_count
          /\ db'[i].context_version_max >= db[i].context_version_max
          /\ (pc = "commit" /\ pc' = "release" /\ Hits(i) # {}) =>
               /\ db'[i].last_ts =
                    SetMax({db[i].last_ts} \cup
                           {txWrites[k].last_ts : k \in Hits(i)})
               /\ db'[i].segment_end =
                    SetMax({db[i].segment_end} \cup
                           {txWrites[k].segment_end : k \in Hits(i)})]_vars

\* a committed cycle whose segment hit a stored row that carried a higher
\* version marker than the segment
C14_Witness ==
  /\ pc = "release" /\ outcome = "committed"
  /\ \E i \in 1..Len(dbAtTick) : \E j \in 1..Len(segments) :
       /\ idempotencyKey(mode, segments[j]) = dbAtTick[i].idempotency_key
       /\ maxOrNull(segments[j].contextVersions)
            < dbAtTick[i].context_version_max
       /\ db[i].raw_count > dbAtTick[i].raw_count
       /\ db[i].context_version_max = dbAtTick[i].context_version_max

\* the resolver lookup of the event returns no row
Miss(e) ==
  resolveContext(ctx, e.original_timestamp, normalizePcTag(e.pc_tag)) = <<>>

LastEvent(seg) == seg.events[Len(seg.events)]

(* C15: in the segments a cycle has built, every event whose lookup        *)
(* returns no row lies in a segment of project 'UNASSIGNED', slug          *)
(* 'unassigned', whatever project the event itself names; two such events  *)
(* next to each other in the fetched order lie in the same segment; and    *)
(* the loop turn of such an event, its lookup answered, goes on to the     *)
(* next event or to the writes with the event in an 'UNASSIGNED' segment.  *)
C15_AbsenceHandling ==
  /\ []((pc \in {"write", "commit", "release"} /\ rawEvents # <<>>
            /\ outcome \in {"none", "committed"}) =>
          /\ FlattenEvents(segments) = rawEvents
          /\ \A j \in 1..Len(segments) :
               \A n \in 1..Len(segments[j].events) :
                 Miss(segments[j].events[n]) =>
                   /\ segments[j].projectId = "UNASSIGNED"
                   /\ segments[j].projectSlug = "unassigned"
          /\ \A j \in 1..(Len(segments) - 1) :
               ~(/\ Miss(LastEvent(segments[j]))
                 /\ Miss(segments[j + 1].events[1])))
  /\ [][(pc = "resolve" /\ Miss(rawEvents[idx]) /\ pc' # "rollback") =>
          /\ pc' \in {"resolve", "write"}
          /\ currentSegment'[1].projectId = "UNASSIGNED"
          /\ LastEvent(currentSegment'[1]) = rawEvents[idx]]_vars

\* a committed cycle that put two events without a context row, one of
\* them naming a project of its own, into one 'UNASSIGNED' row
C15_Witness ==
  /\ pc = "release" /\ outcome = "committed"
  /\ \E j \in 1..Len(segments) :
       /\ Len(segments[j].events) >= 2
       /\ \A n \in 1..Len(segments[j].events) : Miss(segments[j].events[n])
       /\ \E n \in 1..Len(segments[j].events) :
            segments[j].events[n].project_id # NullStr
       /\ \E i \in 1..Len(db) :
            /\ db[i].idempotency_key = idempotencyKey(mode, segments[j])
            /\ db[i].project_id = "UNASSIGNED"
            /\ db[i].project_slug = "unassigned"

\* the cycle found no event in its window
EmptyCycle == rawEvents = <<>>

(* C16: a cycle whose SELECT returned no row never runs the loop of the    *)
(* lookups or the loop of the upserts: from the SELECT it goes to COMMIT   *)
(* with no segment and no pending write, the COMMIT ends the transaction   *)
(* and leaves dev_session_logs as it was at the tick, and the release      *)
(* gives the connection back and returns to the scheduler.                 *)
C16_EmptyWindow ==
  /\ [](/\ pc \in {"resolve", "write"} => ~EmptyCycle
        /\ (pc = "commit" /\ EmptyCycle) =>
             /\ segments = <<>> /\ currentSegment = <<>>
             /\ txWrites = <<>> /\ txOpen
             /\ db = dbAtTick /\ checkedOut = 1)
  /\ [][/\ (pc = "fetch" /\ pc' \notin {"fetch", "rollback"}
              /\ rawEvents' = <<>>) => pc' = "commit"
        /\ (pc = "commit" /\ EmptyCycle /\ pc' = "release") =>
             /\ db' = dbAtTick /\ txWrites' = <<>>
             /\ ~txOpen' /\ outcome' = "committed"
        /\ (pc = "release" /\ EmptyCycle /\ outcome = "committed"
              /\ pc' # "release") =>
             /\ pc' = "wait" /\ checkedOut' = 0
             /\ db' = db /\ ~txOpen']_vars

\* an external cycle committed over a window that holds only internal
\* events, with aggregates of an earlier cycle stored
C16_Witness ==
  /\ pc = "release" /\ outcome = "committed" /\ EmptyCycle
  /\ mode = "external"
  /\ fetchRows(raw, windowStart, windowEnd, "internal") # {}
  /\ db # <<>> /\ db = dbAtTick /\ ~txOpen

(* C18: a cycle holds at most one connection; when its client is released  *)
(* the transaction has been ended by COMMIT or by ROLLBACK; and between    *)
(* cycles no connection is checked out and no transaction is open.  The    *)
(* catch block awaits ROLLBACK without a handler (see C4): when it is      *)
(* rejected the finally block releases a client whose transaction was      *)
(* never ended.                                                            *)
C18_ResourcesReleased ==
  /\ checkedOut \in {0, 1}
  /\ Idle => (checkedOut = 0 /\ ~txOpen /\ txWrites = <<>>)
  /\ pc = "release" =>
       /\ checkedOut = 1
       /\ ~txOpen
       /\ outcome \in {"committed", "rolledback"}

(* C19: the segments a cycle has built have pairwise distinct idempotency  *)
(* keys.  A segment closed by an event of its own timestamp has            *)
(* segmentStart = segmentEnd, so two one-instant segments of the same      *)
(* project, with another project's event of that instant between them,     *)
(* get the same key.                                                       *)
C19_DistinctKeys ==
  SegmentsBuilt =>
    \A i, j \in 1..Len(segments) :
      i # j => idempotencyKey(mode, segments[i]) #
               idempotencyKey(mode, segments[j])

----------------------------------------------------------------------------
(* The time aligner on its own: the clock runs through every instant of    *)
(* two hours and processTick's alignment (tickTime, mode, window) is taken *)
(* at any of them.                                                         *)

MaxClock == 130     \* minutes the clock of SpecTime runs through

InitTime ==
  /\ now = 0
  /\ nowSub = 0
  /\ pc = "tick"
  /\ raw = {}
  /\ ctx = {}
  /\ db = <<>>
  /\ txWrites = <<>>
  /\ txOpen = FALSE
  /\ checkedOut = 0
  /\ tickTime = 0
  /\ mode = "internal"
  /\ windowStart = 0 - WindowMin
  /\ windowEnd = 0
  /\ rawEvents = <<>>
  /\ idx = 0
  /\ currentSegment = <<>>
  /\ segments = <<>>
  /\ outcome = "none"
  /\ restarts = 0
  /\ dbAtTick = <<>>

\* the clock advances by one unit
ClockStep ==
  /\ getTime(now, nowSub) < getTime(MaxClock, 0)
  /\ now' = (getTime(now, nowSub) + 1) \div SubPerMin
  /\ nowSub' = (getTime(now, nowSub) + 1) % SubPerMin
  /\ UNCHANGED <<pc, raw, ctx, db, txWrites, txOpen, checkedOut, locals,
                 outcome, restarts, dbAtTick>>

\* the first lines of processTick at the instant now
Align ==
  /\ tickTime' = floorToQuarterHour(now)
  /\ mode' = ModeOf(quarterIndex(tickTime'))
  /\ windowEnd' = tickTime'
  /\ windowStart' = tickTime' - WindowMin
  /\ UNCHANGED <<now, nowSub, pc, raw, ctx, db, txWrites, txOpen, checkedOut,
                 rawEvents, idx, currentSegment, segments, outcome, restarts,
                 dbAtTick>>

NextTime == ClockStep \/ Align

SpecTime == InitTime /\ [][NextTime]_vars

(* C11: the mode of the quarter-hour floor of any instant is 'internal'    *)
(* for quarter index 0 and 2 and 'external' for 1 and 3; the modes of two  *)
(* consecutive quarter-hours differ, also across the hour; four            *)
(* consecutive quarter-hours use exactly two modes.                        *)
C11_ModeAlternates ==
  /\ quarterIndex(floorToQuarterHour(now)) \in 0..3
  /\ modeAt(now) = "internal" <=> quarterIndex(floorToQuarterHour(now)) \in {0, 2}
  /\ modeAt(now) = "external" <=> quarterIndex(floorToQuarterHour(now)) \in {1, 3}
  /\ modeAt(now) # modeAt(now + QuarterMin)
  /\ Cardinality({modeAt(now + k * QuarterMin) : k \in 0..3}) = 2
  /\ tickTime = floorToQuarterHour(now) => mode = modeAt(now)

\* a cycle aligned in the last quarter of an hour; the next one is in the
\* first quarter of the next hour
C11_Witness ==
  /\ now > HourMin
  /\ tickTime = floorToQuarterHour(now)
  /\ quarterIndex(tickTime) = 3
  /\ mode = "external"
  /\ quarterIndex(floorToQuarterHour(now + QuarterMin)) = 0
  /\ modeAt(now + QuarterMin) = "internal"

(* C17: at every instant msUntilNextQuarter is a duration d with           *)
(* 0 < d <= 15 minutes and now + d is a quarter-hour boundary; on a        *)
(* boundary it is the full 15 minutes.                                     *)
C17_WaitPositive ==
  LET d == msUntilNextQuarter(now, nowSub)
      fired == getTime(now, nowSub) + d
  IN  /\ d > 0
      /\ d <= getTime(QuarterMin, 0)
      /\ OnBoundary(fired \div SubPerMin, fired % SubPerMin)
      /\ OnBoundary(now, nowSub) => d = getTime(QuarterMin, 0)

\* the instant is a boundary and the wait is the full quarter-hour
C17_Witness ==
  /\ now > HourMin
  /\ OnBoundary(now, nowSub)
  /\ msUntilNextQuarter(now, nowSub) = getTime(QuarterMin, 0)

\* the k-th quarter-hour tick from the floor of now on, and a raw event of
\* timestamp t and source m
TickNo(k) == floorToQuarterHour(now) + k * QuarterMin
Probe(t, m) ==
  [id |-> 0, pc_tag |-> <<>>, source_type |-> m, original_timestamp |-> t,
   context_version |-> NullInt, project_id |-> NullStr,
   project_slug |-> NullStr, processed |-> FALSE]
FetchedAt(k, e) ==
  e \in fetchRows({e}, TickNo(k) - WindowMin, TickNo(k),
                  ModeOf(quarterIndex(TickNo(k))))

(* C20: with a cycle at every quarter-hour boundary, the windows of the    *)
(* ticks of one mode are pairwise disjoint and contiguous, the windows of  *)
(* consecutive ticks overlap by 15 minutes, and a raw event of source      *)
(* 'internal' or 'external' is fetched by exactly one cycle.               *)
C20_FetchedExactlyOnce ==
  /\ \A j, k \in 0..7 :
       (j < k /\ modeAt(TickNo(j)) = modeAt(TickNo(k)))
         => TickNo(j) <= TickNo(k) - WindowMin
  /\ \A k \in 0..5 :
       /\ modeAt(TickNo(k + 2)) = modeAt(TickNo(k))
       /\ modeAt(TickNo(k + 1)) # modeAt(TickNo(k))
       /\ TickNo(k + 2) - WindowMin = TickNo(k)
       /\ TickNo(k) - (TickNo(k + 1) - WindowMin) = QuarterMin
  /\ \A t \in (TickNo(0) - QuarterMin)..(TickNo(0) + HourMin) :
       \A m \in Modes :
         Cardinality({k \in 0..7 : FetchedAt(k, Probe(t, m))}) = 1

\* a cycle aligned on a boundary: the quarter-hour its window shares with
\* the next tick's window is read by it for its own mode and by the next
\* tick for the other mode, and by no later tick of its mode
C20_Witness ==
  /\ now > HourMin
  /\ OnBoundary(now, nowSub)
  /\ tickTime = now
  /\ windowStart = tickTime - WindowMin
  /\ FetchedAt(0, Probe(now - QuarterMin, mode))
  /\ ~FetchedAt(2, Probe(now - QuarterMin, mode))
  /\ FetchedAt(1, Probe(now - QuarterMin, modeAt(now + QuarterMin)))
  /\ ~FetchedAt(0, Probe(now - QuarterMin, modeAt(now + QuarterMin)))

====
